---------------------------- MODULE Spec2Model ----------------------------
(***************************************************************************)
(* A model of three parts of the rustico / rusticnes emulator:             *)
(*   - the GxRom cartridge mapper          (src/src/mmc/gxrom.rs)          *)
(*       SpecGxRom:     new, read_byte, write_byte, mirroring              *)
(*   - the egui shell RusticoGameWindow    (src/egui/src/main.rs)          *)
(*       SpecInput:     apply_player_input and the runtime channel         *)
(*       SpecCartridge: open_cartridge, the Save SRAM menu, on_exit, the   *)
(*                      end of main, and both channels to the worker       *)
(*       SpecFrames:    process_shell_events, handle_event,                *)
(*                      process_rendered_frames and the shell channel      *)
(*   - the piano roll PianoRollWindow      (src/src/piano_roll_window.rs)  *)
(*       SpecChannels:  pulse_frequency, triangle_frequency and the        *)
(*                      channel state functions, for every stored period   *)
(*       SpecPiano:     update on a console the emulator runs              *)
(* Each specification is over the shared variables; the variables of the   *)
(* other parts keep their constructed values.                              *)
(***************************************************************************)
EXTENDS Integers, Sequences, FiniteSets, TLC

VARIABLES
    \* ---- GxRom (gxrom.rs:7-13)
    prg_rom,            \* Vec<u8>, as [len, seed]: byte i is RomByte(rom, i)
    chr_rom,            \* Vec<u8>, same representation
    mirroring,          \* Mirroring
    prg_bank,           \* usize
    chr_bank,           \* usize
    gx_call,            \* the last Mapper call and what it returned
    gx_written,         \* data byte of the last write to 0x8000-0xFFFF, or -1
    \* ---- RusticoGameWindow (main.rs:28-45) and its runtime channel
    old_p1_buttons_held,    \* u8
    sram_path,              \* PathBuf, as [stem, ext, utf8]
    runtime_tx,             \* events sent and not yet received by the worker
    shell_call,             \* the last call on the window and the events it sent
    loaded_sav,             \* save path of the cartridge last sent in a LoadCartridge
    p1_sent,                \* what the button events sent so far amount to
    has_sram,               \* bool
    settings_cache,         \* SettingsState
    last_rendered_frames,   \* HashMap<String, VecDeque<Arc<RenderedImage>>>
    game_window_scale,      \* usize
    texture_handle,         \* the frame the game window's texture shows
    shell_rx,               \* shell events sent by the worker and not yet received
    shell_pc,               \* "idle", or "process_shell_events" inside its loop
    \* ---- main (main.rs:466-496) and the worker thread it spawns
    worker,                 \* the worker thread: [exited, sram_saved, rendered]
    main_state,             \* main: "running", "returned" or "panicked"
    \* ---- PianoRollWindow (piano_roll_window.rs:36-42) and the NesState it is shown
    nes,                    \* NesState: [ppu, apu], the fields the window reads
    buffer,                 \* SimpleBuffer, as [header, columns]
    last_frame,             \* u32
    last_dmc_output,        \* u32
    piano_call              \* the last call on the window or its functions

gxVars == <<prg_rom, chr_rom, mirroring, prg_bank, chr_bank, gx_call, gx_written>>

\* the fields the frame and shell-event handlers work on
frameVars == <<has_sram, settings_cache, last_rendered_frames, game_window_scale,
               texture_handle>>

shellVars == <<old_p1_buttons_held, sram_path, runtime_tx, shell_call, loaded_sav, p1_sent,
               frameVars, shell_rx, shell_pc, worker, main_state>>

pianoVars == <<nes, buffer, last_frame, last_dmc_output, piano_call>>

vars == <<gxVars, shellVars, pianoVars>>

(***************************************************************************)
(* Bounds of the model                                                     *)
(***************************************************************************)
\* PRG storage of 0..MaxPrgBanks whole 32 KiB banks is loaded
MaxPrgBanks == 3
\* CHR storage of 0..MaxChrBanks whole 8 KiB banks is loaded
MaxChrBanks == 3
\* at most MaxKeysDown keys are down at one input poll
MaxKeysDown == 2
\* open_cartridge is called while at most MaxChannel events wait in the channel
MaxChannel == 1
\* the worker sends a shell event while fewer than MaxShellRx wait in the channel
MaxShellRx == 1
\* the worker renders at most MaxFrames frames
MaxFrames == 4
\* the channel functions are applied to every stored period in 0..MaxPeriod
MaxPeriod == 4100
\* the model keeps the ShownColumns rightmost columns of the piano roll
ShownColumns == 2
\* the console is shown until its frame counter is MaxPpuFrame
MaxPpuFrame == 3

(***************************************************************************)
(* u8 / usize arithmetic                                                   *)
(***************************************************************************)
Pow2(n) == 2 ^ n

Bit(x, i) == (x \div Pow2(i)) % 2

RECURSIVE AndBits(_, _, _)
AndBits(a, b, i) ==
    IF i < 0 THEN 0
    ELSE Bit(a, i) * Bit(b, i) * Pow2(i) + AndBits(a, b, i - 1)

\* a & b on u8, tabulated once
AndTable == [a \in 0..255 |-> [b \in 0..255 |-> AndBits(a, b, 7)]]

BitAnd(a, b) == AndTable[a][b]

\* !a on u8
BitNot(a) == 255 - a

\* a >> n
Shr(a, n) == a \div Pow2(n)

(***************************************************************************)
(* GxRom                                                                   *)
(***************************************************************************)
\* 0x8000: the PRG window and bank size (gxrom.rs:40)
PRG_BANK_SIZE == 32768
\* 0x2000: the CHR window and bank size (gxrom.rs:36)
CHR_BANK_SIZE == 8192

\* 0b0011_0000 and 0b0000_0011 (gxrom.rs:49-50)
PRG_BANK_MASK == 48
CHR_BANK_MASK == 3

\* The bytes of a loaded ROM image: a fixed pattern in which the same offset
\* of different banks holds different bytes.
RomByte(rom, i) == (i + 17 * (i \div 4096) + 101 * rom.seed) % 256

\* storage lengths that are not a whole number of banks
RaggedPrgLens == {24576}
RaggedChrLens == {6144}

PrgLens == {k * PRG_BANK_SIZE : k \in 0..MaxPrgBanks} \cup RaggedPrgLens
ChrLens == {k * CHR_BANK_SIZE : k \in 0..MaxChrBanks} \cup RaggedChrLens

Mirrorings == {"Horizontal", "Vertical"}

\* the u16 addresses the bus presents: both ends of every region of the map
Addresses == {0, 8191, 8192, 32767, 32768, 65535}

\* the u8 data bytes written: every bank select, with and without the unused bits
DataBytes == {0, 19, 33, 48, 50, 71, 222, 255}

None == [tag |-> "None"]
Some(b) == [tag |-> "Some", byte |-> b]
\* a Rust panic (index out of bounds, remainder with a divisor of zero)
Fault == [tag |-> "Fault"]

\* self.rom[index % len]: panics when len = 0, and on an index outside the Vec
IndexMod(rom, index) ==
    IF rom.len = 0 THEN Fault
    ELSE LET i == index % rom.len
         IN  IF i < rom.len THEN Some(RomByte(rom, i)) ELSE Fault

\* read_byte without the reduction modulo the storage length
read_byte_NoModulo(prg, chr, pbank, cbank, address) ==
    LET Index(rom, index) ==
            IF index < rom.len THEN Some(RomByte(rom, index)) ELSE Fault
    IN  IF address \in 0..8191
          THEN Index(chr, (cbank * CHR_BANK_SIZE) + address)
        ELSE IF address \in 32768..65535
          THEN Index(prg, (pbank * PRG_BANK_SIZE) + (address - 32768))
        ELSE None

\* read_byte with 16 KiB PRG banks
read_byte_HalfPrgBank(prg, chr, pbank, cbank, address) ==
    IF address \in 0..8191
      THEN IndexMod(chr, (cbank * CHR_BANK_SIZE) + address)
    ELSE IF address \in 32768..65535
      THEN IndexMod(prg, (pbank * 16384) + (address - 32768))
    ELSE None

\* GxRom::read_byte
read_byte(prg, chr, pbank, cbank, address) ==
    IF address \in 0..8191
      THEN IndexMod(chr, (cbank * CHR_BANK_SIZE) + address)
    ELSE IF address \in 32768..65535
      THEN IndexMod(prg, (pbank * PRG_BANK_SIZE) + (address - 32768))
    ELSE None

\* write_byte that adds the selected banks to the ones selected before
write_byte_AddsToBank(pbank, cbank, address, data) ==
    IF address \in 32768..65535
      THEN << (pbank + Shr(BitAnd(data, PRG_BANK_MASK), 4)) % 4,
              (cbank + BitAnd(data, CHR_BANK_MASK)) % 4 >>
      ELSE << pbank, cbank >>

\* write_byte with a 3-bit PRG bank field (mask 0b0111_0000)
write_byte_WideMask(pbank, cbank, address, data) ==
    IF address \in 32768..65535
      THEN << Shr(BitAnd(data, 112), 4), BitAnd(data, CHR_BANK_MASK) >>
      ELSE << pbank, cbank >>

\* write_byte that also claims 0x6000-0x7FFF
write_byte_ClaimsLow(pbank, cbank, address, data) ==
    IF address \in 24576..65535
      THEN << Shr(BitAnd(data, PRG_BANK_MASK), 4), BitAnd(data, CHR_BANK_MASK) >>
      ELSE << pbank, cbank >>

\* GxRom::write_byte: the new <<prg_bank, chr_bank>>
write_byte(pbank, cbank, address, data) ==
    IF address \in 32768..65535
      THEN << Shr(BitAnd(data, PRG_BANK_MASK), 4), BitAnd(data, CHR_BANK_MASK) >>
      ELSE << pbank, cbank >>

\* GxRom::new
GxNew ==
    /\ prg_rom \in [len : PrgLens, seed : {0}]
    /\ chr_rom \in [len : ChrLens, seed : {1}]
    /\ mirroring \in Mirrorings
    /\ prg_bank = 0
    /\ chr_bank = 0
    /\ gx_call = [op |-> "new", address |-> -1, data |-> -1, result |-> None]
    /\ gx_written = -1

\* a panic ends the program: nothing is called on the mapper afterwards
GxAlive == gx_call.result # Fault

\* a read_byte that latches a CHR bank when the last tile of the window is read
ReadByte_Latching ==
    /\ GxAlive
    /\ \E address \in Addresses :
         /\ gx_call' = [op |-> "read", address |-> address, data |-> -1,
                        result |-> read_byte(prg_rom, chr_rom, prg_bank, chr_bank, address)]
         /\ chr_bank' = IF address = 8191 THEN 1 ELSE chr_bank
    /\ UNCHANGED <<prg_rom, chr_rom, mirroring, prg_bank, gx_written>>

ReadByte ==
    /\ GxAlive
    /\ \E address \in Addresses :
         gx_call' = [op |-> "read", address |-> address, data |-> -1,
                     result |-> read_byte(prg_rom, chr_rom, prg_bank, chr_bank, address)]
    /\ UNCHANGED <<prg_rom, chr_rom, mirroring, prg_bank, chr_bank, gx_written>>

WriteByte ==
    /\ GxAlive
    /\ \E address \in Addresses, data \in DataBytes :
         LET banks == write_byte(prg_bank, chr_bank, address, data)
         IN  /\ prg_bank' = banks[1]
             /\ chr_bank' = banks[2]
             /\ gx_call' = [op |-> "write", address |-> address, data |-> data,
                            result |-> None]
             /\ gx_written' = IF address \in 32768..65535 THEN data ELSE gx_written
    /\ UNCHANGED <<prg_rom, chr_rom, mirroring>>

GetMirroring ==
    /\ GxAlive
    /\ gx_call' = [op |-> "mirroring", address |-> -1, data |-> -1,
                   result |-> [tag |-> "Mirroring", value |-> mirroring]]
    /\ UNCHANGED <<prg_rom, chr_rom, mirroring, prg_bank, chr_bank, gx_written>>

GxNext ==
    \/ ReadByte /\ UNCHANGED <<shellVars, pianoVars>>
    \/ WriteByte /\ UNCHANGED <<shellVars, pianoVars>>
    \/ GetMirroring /\ UNCHANGED <<shellVars, pianoVars>>

(***************************************************************************)
(* PianoRollWindow: the state of a channel                                 *)
(***************************************************************************)
\* 1.789773 * 1024.0 * 1024.0, which in f32 is the integer 1876713.0
NTSC_CPU_FREQUENCY == 1876713
HEADER_HEIGHT == 32
NOTE_FIELD_X == 0
NOTE_FIELD_Y == HEADER_HEIGHT
NOTE_FIELD_SPACING == 8
DMC_HEIGHT == 32
KEY_HEIGHT == 9
NOTE_COUNT == 76
PERCUSSION_COUNT == 16
NOTE_FIELD_WIDTH == 768
NOTE_FIELD_HEIGHT == KEY_HEIGHT * NOTE_COUNT
PERCUSSION_FIELD_HEIGHT == KEY_HEIGHT * PERCUSSION_COUNT
LOWEST_NOTE_FREQ == 55

\* an f32 as the quotient num / den of two integers it holds exactly; the
\* rounding of the quotient to 24 bits is left out (it is monotone, and exact
\* for a division by two)
F32(num, den) == [num |-> num, den |-> den]

\* the fields of the APU the window reads
PulseChannel(current_volume, length, period_initial) ==
    [envelope |-> [current_volume |-> current_volume],
     length_counter |-> [length |-> length],
     period_initial |-> period_initial]
TriangleChannel(length, linear_counter_current, period_initial) ==
    [length_counter |-> [length |-> length],
     linear_counter_current |-> linear_counter_current,
     period_initial |-> period_initial]
NoiseChannel(current_volume, length, period_initial, mode) ==
    [envelope |-> [current_volume |-> current_volume],
     length_counter |-> [length |-> length],
     period_initial |-> period_initial,
     mode |-> mode]
Dmc(silence_flag, output_level) ==
    [silence_flag |-> silence_flag, output_level |-> output_level]
Apu(pulse_1, pulse_2, triangle, noise, dmc) ==
    [pulse_1 |-> pulse_1, pulse_2 |-> pulse_2, triangle |-> triangle,
     noise |-> noise, dmc |-> dmc]

ChannelState(playing, frequency, volume) ==
    [playing |-> playing, frequency |-> frequency, volume |-> volume]

\* pulse_frequency without the + 1.0
pulse_frequency_PeriodOnly(pulse_period) ==
    F32(NTSC_CPU_FREQUENCY, 16 * pulse_period)

pulse_frequency(pulse_period) ==
    F32(NTSC_CPU_FREQUENCY, 16 * (pulse_period + 1))

triangle_frequency(triangle_period) ==
    F32(NTSC_CPU_FREQUENCY, 32 * (triangle_period + 1))

pulse_channel_state(pulse) ==
    LET volume == pulse.envelope.current_volume
        playing == volume # 0 /\ pulse.length_counter.length > 0
        frequency == pulse_frequency(pulse.period_initial)
    IN  ChannelState(playing, frequency, F32(volume, 1))

triangle_channel_state(triangle) ==
    LET volume == F32(8, 1)
        playing == /\ triangle.length_counter.length > 0
                   /\ triangle.linear_counter_current # 0
                   /\ triangle.period_initial > 2
        frequency == triangle_frequency(triangle.period_initial)
    IN  ChannelState(playing, frequency, volume)

\* the arms of the match with 2034 and 4068 sharing an index
NoiseArms_SharedIndex ==
    { <<4, 0>>, <<8, 1>>, <<16, 2>>, <<32, 3>>, <<64, 4>>, <<96, 5>>, <<128, 6>>,
      <<160, 7>>, <<202, 8>>, <<254, 9>>, <<380, 10>>, <<508, 11>>, <<762, 12>>,
      <<1016, 13>>, <<2034, 14>>, <<4068, 14>> }

\* the arms  period => index  of the match on noise.period_initial
NoiseArms ==
    { <<4, 0>>, <<8, 1>>, <<16, 2>>, <<32, 3>>, <<64, 4>>, <<96, 5>>, <<128, 6>>,
      <<160, 7>>, <<202, 8>>, <<254, 9>>, <<380, 10>>, <<508, 11>>, <<762, 12>>,
      <<1016, 13>>, <<2034, 14>>, <<4068, 15>> }

\* the match with the arm  _ => 16
noise_frequency_DefaultSixteen(period_initial) ==
    IF \E arm \in NoiseArms : arm[1] = period_initial
      THEN (CHOOSE arm \in NoiseArms : arm[1] = period_initial)[2]
      ELSE 16

\* match noise.period_initial { 4 => 0, .., 4068 => 15, _ => 0 }
noise_frequency(period_initial) ==
    IF \E arm \in NoiseArms : arm[1] = period_initial
      THEN (CHOOSE arm \in NoiseArms : arm[1] = period_initial)[2]
      ELSE 0

noise_channel_state(noise) ==
    LET volume == noise.envelope.current_volume
        playing == volume # 0 /\ noise.length_counter.length > 0
        frequency == noise_frequency(noise.period_initial)
    IN  ChannelState(playing, F32(frequency, 1), F32(volume, 1))

(***************************************************************************)
(* PianoRollWindow: the functions applied to every stored period           *)
(***************************************************************************)
\* the APU after power-on: nothing plays
PowerOnApu ==
    Apu(PulseChannel(0, 0, 0), PulseChannel(0, 0, 0), TriangleChannel(0, 0, 0),
        NoiseChannel(0, 0, 0, 0), Dmc(TRUE, 0))

NesPowerOn == [ppu |-> [current_frame |-> 0], apu |-> PowerOnApu]

\* a column of the playfield: the key background and the rectangles drawn
\* over it, in the order they were drawn; SimpleBuffer::new is blank
BlankColumn == [keys |-> FALSE, rects |-> <<>>]

\* PianoRollWindow::new
PianoNew ==
    /\ buffer = [header |-> <<>>, columns |-> [i \in 1..ShownColumns |-> BlankColumn]]
    /\ last_frame = 0
    /\ last_dmc_output = 0
    /\ piano_call = [op |-> "new", panicked |-> FALSE]

\* no piano roll is shown: a fresh window and a console that was just powered on
PianoIdle == nes = NesPowerOn /\ PianoNew

\* a panic of update ends the debugger
PianoAlive == ~piano_call.panicked

\* APU states with one stored period p in all channels (11 bits of it in the
\* pulse and triangle timers), for every p in 0..MaxPeriod
ChannelProbes ==
    { Apu(PulseChannel(v, l, p % 2048), PulseChannel(v, l, p % 2048),
          TriangleChannel(l, c, p % 2048), NoiseChannel(v, l, p, 0), Dmc(TRUE, 0)) :
        p \in 0..MaxPeriod, v \in {0, 9}, l \in {0, 3}, c \in {0, 5} }

PulseFrequency ==
    /\ piano_call' = [op |-> "pulse_frequency", panicked |-> FALSE,
                      period |-> nes.apu.pulse_1.period_initial,
                      result |-> pulse_frequency(nes.apu.pulse_1.period_initial)]
    /\ UNCHANGED <<nes, buffer, last_frame, last_dmc_output>>

TriangleFrequency ==
    /\ piano_call' = [op |-> "triangle_frequency", panicked |-> FALSE,
                      period |-> nes.apu.triangle.period_initial,
                      result |-> triangle_frequency(nes.apu.triangle.period_initial)]
    /\ UNCHANGED <<nes, buffer, last_frame, last_dmc_output>>

PulseChannelState ==
    /\ piano_call' = [op |-> "pulse_channel_state", panicked |-> FALSE,
                      result |-> pulse_channel_state(nes.apu.pulse_1)]
    /\ UNCHANGED <<nes, buffer, last_frame, last_dmc_output>>

TriangleChannelState ==
    /\ piano_call' = [op |-> "triangle_channel_state", panicked |-> FALSE,
                      result |-> triangle_channel_state(nes.apu.triangle)]
    /\ UNCHANGED <<nes, buffer, last_frame, last_dmc_output>>

NoiseChannelState ==
    /\ piano_call' = [op |-> "noise_channel_state", panicked |-> FALSE,
                      result |-> noise_channel_state(nes.apu.noise)]
    /\ UNCHANGED <<nes, buffer, last_frame, last_dmc_output>>

ChannelsNext ==
    \/ PulseFrequency /\ UNCHANGED <<gxVars, shellVars>>
    \/ TriangleFrequency /\ UNCHANGED <<gxVars, shellVars>>
    \/ PulseChannelState /\ UNCHANGED <<gxVars, shellVars>>
    \/ TriangleChannelState /\ UNCHANGED <<gxVars, shellVars>>
    \/ NoiseChannelState /\ UNCHANGED <<gxVars, shellVars>>

(***************************************************************************)
(* PianoRollWindow: drawing                                                *)
(***************************************************************************)
\* drawing::rect, as the entry it leaves in the column it is drawn in
Rect(x, y, width, height, color) ==
    [x |-> x, y |-> y, width |-> width, height |-> height, color |-> color]

\* apply_brightness, the brightness in percent: (c as f32 * brightness) as u8
apply_brightness(color, brightness) ==
    << (color[1] * brightness) \div 100, (color[2] * brightness) \div 100,
       (color[3] * brightness) \div 100, 255 >>

\* f32 as u32, for an f32 that is not negative: the fraction is dropped
AsU32(f) == f.num \div f.den

\* format!("{:.2}", f): f rounded to hundredths, as the number of hundredths
Format2(f) == (f.num * 200 + f.den) \div (2 * f.den)

\* HIGHEST_NOTE_FREQ / LOWEST_NOTE_FREQ = 4434.922 / 55 is 2^(76/12): the
\* height of NOTE_COUNT keys spans 76 semitones, so height * 12 / 76 steps of
\* the coordinate are an octave
StepsPerOctave(height) == (height * 12) \div NOTE_COUNT

\* OctaveDivisors[j + 1] = ceil(NTSC_CPU_FREQUENCY / (LOWEST_NOTE_FREQ * 2^(j / 108))):
\* the clock divided by d is at or below step j above the lowest note iff
\* d >= OctaveDivisors[j + 1]
OctaveDivisors ==
    << 34123, 33904, 33687, 33472, 33258, 33045, 32834, 32624, 32415,
       32207, 32001, 31797, 31593, 31391, 31190, 30991, 30793, 30596,
       30400, 30205, 30012, 29820, 29629, 29440, 29251, 29064, 28878,
       28694, 28510, 28328, 28146, 27966, 27787, 27610, 27433, 27258,
       27083, 26910, 26738, 26567, 26397, 26228, 26060, 25893, 25728,
       25563, 25400, 25237, 25076, 24915, 24756, 24597, 24440, 24284,
       24128, 23974, 23821, 23668, 23517, 23366, 23217, 23068, 22921,
       22774, 22629, 22484, 22340, 22197, 22055, 21914, 21774, 21634,
       21496, 21359, 21222, 21086, 20951, 20817, 20684, 20552, 20420,
       20290, 20160, 20031, 19903, 19775, 19649, 19523, 19398, 19274,
       19151, 19028, 18907, 18786, 18665, 18546, 18427, 18310, 18192,
       18076, 17960, 17845, 17731, 17618, 17505, 17393, 17282, 17171 >>

\* the octave above the lowest note the clock divided by den lies in
RECURSIVE OctaveAbove(_, _)
OctaveAbove(den, o) ==
    IF den * Pow2(o + 1) >= OctaveDivisors[1] THEN o ELSE OctaveAbove(den, o + 1)

\* ((frequency.ln() - LOWEST_NOTE_FREQ.ln()) * (height as f32) / range).ceil() as u32
\* for a frequency NTSC_CPU_FREQUENCY / den with den > 0: the least y >= 0 with
\* frequency <= LOWEST_NOTE_FREQ * 2^(y / StepsPerOctave); a value that is not
\* positive becomes 0 by `as u32`
frequency_to_coordinate(frequency, height) ==
    LET den == frequency.den
        steps == StepsPerOctave(height)
    IN  IF den >= OctaveDivisors[1]
          THEN 0
          ELSE LET o == OctaveAbove(den, 0)
                   reached == {j \in 0..(steps - 1) : den * Pow2(o) >= OctaveDivisors[j + 1]}
               IN  IF reached = {}
                     THEN steps * (o + 1)
                     ELSE steps * o + (CHOOSE j \in reached : \A k \in reached : j <= k)

\* the stored periods of the consoles shown, and the divisors they give
ShownPeriods == {0, 2, 100, 126, 253, 1063, 1100, 2047}
NoteDivisors == {16 * (period + 1) : period \in ShownPeriods}
                    \cup {32 * (period + 1) : period \in ShownPeriods}

\* frequency_to_coordinate(.., NOTE_FIELD_HEIGHT), tabulated once for these divisors
NoteCoordinate ==
    [den \in NoteDivisors |->
        frequency_to_coordinate(F32(NTSC_CPU_FREQUENCY, den), NOTE_FIELD_HEIGHT)]

\* draw_note without the test of channel.playing
draw_note_AlwaysDraws(rects, channel, color, overflow_checks) ==
    LET note_height == BitAnd((AsU32(channel.volume) * KEY_HEIGHT) \div 15, 254) + 1
        outline_py == NoteCoordinate[channel.frequency.den]
        inset == (KEY_HEIGHT - note_height) \div 2
    IN  IF outline_py < inset /\ overflow_checks
          THEN [rects |-> rects, panicked |-> TRUE]
        ELSE LET note_py == outline_py - inset
             IN  IF outline_py >= KEY_HEIGHT /\ outline_py < NOTE_FIELD_HEIGHT - KEY_HEIGHT
                   THEN [rects |-> rects \o
                           << Rect(NOTE_FIELD_X + NOTE_FIELD_WIDTH - 1,
                                   NOTE_FIELD_HEIGHT - outline_py + NOTE_FIELD_Y - 1,
                                   1, KEY_HEIGHT, apply_brightness(color, 40)),
                              Rect(NOTE_FIELD_X + NOTE_FIELD_WIDTH - 1,
                                   NOTE_FIELD_HEIGHT - note_py + NOTE_FIELD_Y - 1,
                                   1, note_height, apply_brightness(color, 100)) >>,
                         panicked |-> FALSE]
                   ELSE [rects |-> rects, panicked |-> FALSE]

\* draw_note: the rectangles of the column after it, and whether the
\* subtraction panicked (a build with overflow checks) below zero
draw_note(rects, channel, color, overflow_checks) ==
    IF channel.playing
      THEN LET note_height == BitAnd((AsU32(channel.volume) * KEY_HEIGHT) \div 15, 254) + 1
               outline_py == NoteCoordinate[channel.frequency.den]
               inset == (KEY_HEIGHT - note_height) \div 2
           IN  IF outline_py < inset /\ overflow_checks
                 THEN [rects |-> rects, panicked |-> TRUE]
               ELSE \* without overflow checks note_py wraps below zero; it is
                    \* read only under outline_py >= KEY_HEIGHT, where it has not
                    LET note_py == outline_py - inset
                    IN  IF outline_py >= KEY_HEIGHT /\ outline_py < NOTE_FIELD_HEIGHT - KEY_HEIGHT
                          THEN [rects |-> rects \o
                                  << Rect(NOTE_FIELD_X + NOTE_FIELD_WIDTH - 1,
                                          NOTE_FIELD_HEIGHT - outline_py + NOTE_FIELD_Y - 1,
                                          1, KEY_HEIGHT, apply_brightness(color, 40)),
                                     Rect(NOTE_FIELD_X + NOTE_FIELD_WIDTH - 1,
                                          NOTE_FIELD_HEIGHT - note_py + NOTE_FIELD_Y - 1,
                                          1, note_height, apply_brightness(color, 100)) >>,
                                panicked |-> FALSE]
                          ELSE [rects |-> rects, panicked |-> FALSE]
      ELSE [rects |-> rects, panicked |-> FALSE]

\* the first row of the percussion field
PercussionFieldY == NOTE_FIELD_Y + NOTE_FIELD_HEIGHT + NOTE_FIELD_SPACING * 2 + DMC_HEIGHT

draw_percussion(rects, channel, color) ==
    IF channel.playing
      THEN LET note_height == BitAnd((AsU32(channel.volume) * KEY_HEIGHT) \div 15, 254) + 1
               outline_py == AsU32(F32(channel.frequency.num * KEY_HEIGHT, channel.frequency.den))
               note_py == outline_py + ((KEY_HEIGHT - note_height) \div 2)
           IN  IF outline_py <= PERCUSSION_FIELD_HEIGHT - KEY_HEIGHT
                 THEN rects \o
                        << Rect(NOTE_FIELD_X + NOTE_FIELD_WIDTH - 1, outline_py + PercussionFieldY,
                                1, KEY_HEIGHT, apply_brightness(color, 40)),
                           Rect(NOTE_FIELD_X + NOTE_FIELD_WIDTH - 1, note_py + PercussionFieldY,
                                1, note_height, apply_brightness(color, 100)) >>
                 ELSE rects
      ELSE rects

\* the rows of the DMC field
DmcRows == (HEADER_HEIGHT + NOTE_FIELD_HEIGHT + NOTE_FIELD_SPACING)
               .. (HEADER_HEIGHT + NOTE_FIELD_HEIGHT + NOTE_FIELD_SPACING + DMC_HEIGHT - 1)

InDmcField(rect) == rect.y \in DmcRows
NotInDmcField(rect) == rect.y \notin DmcRows

\* (a as i32 - b as i32).abs() as u32
AbsDiff(a, b) == IF a >= b THEN a - b ELSE b - a

\* draw_dmc: its background covers what the DMC field of the column showed
draw_dmc(rects, dmc, last_output, color, overflow_checks) ==
    LET playing == ~dmc.silence_flag
        background_py == HEADER_HEIGHT + NOTE_FIELD_HEIGHT + NOTE_FIELD_SPACING
        sample_height == (AbsDiff(dmc.output_level, last_output) * DMC_HEIGHT) \div 128 + 1
    IN  IF (DMC_HEIGHT \div 2) < (sample_height \div 2) /\ overflow_checks
          THEN [rects |-> rects, panicked |-> TRUE]
        ELSE LET sample_py == (DMC_HEIGHT \div 2) - (sample_height \div 2)
                 background_color == apply_brightness(color, IF playing THEN 15 ELSE 10)
                 sample_color == apply_brightness(color, IF playing THEN 100 ELSE 50)
             IN  [rects |-> SelectSeq(rects, NotInDmcField) \o
                       << Rect(NOTE_FIELD_X + NOTE_FIELD_WIDTH - 1, background_py,
                               1, DMC_HEIGHT, background_color),
                          Rect(NOTE_FIELD_X + NOTE_FIELD_WIDTH - 1, background_py + sample_py,
                               1, sample_height, sample_color) >>,
                  panicked |-> FALSE]

\* draw_channels: [rects, last_dmc_output, panicked]
draw_channels(rects, last_dmc, apu, overflow_checks) ==
    LET pulse_1_state == pulse_channel_state(apu.pulse_1)
        drawn_1 == draw_note(rects, pulse_1_state, <<255, 64, 64, 255>>, overflow_checks)
        pulse_2_state == pulse_channel_state(apu.pulse_2)
        drawn_2 == draw_note(drawn_1.rects, pulse_2_state, <<255, 144, 64, 255>>,
                             overflow_checks)
        triangle_state == triangle_channel_state(apu.triangle)
        drawn_3 == draw_note(drawn_2.rects, triangle_state, <<64, 255, 64, 255>>,
                             overflow_checks)
        drawn_4 == draw_dmc(drawn_3.rects, apu.dmc, last_dmc, <<128, 64, 255, 255>>,
                            overflow_checks)
        noise_state == noise_channel_state(apu.noise)
        drawn_5 == IF apu.noise.mode = 0
                     THEN draw_percussion(drawn_4.rects, noise_state, <<64, 64, 255, 255>>)
                     ELSE draw_percussion(drawn_4.rects, noise_state, <<64, 255, 255, 255>>)
    IN  IF drawn_1.panicked
          THEN [rects |-> drawn_1.rects, last_dmc_output |-> last_dmc, panicked |-> TRUE]
        ELSE IF drawn_2.panicked
          THEN [rects |-> drawn_2.rects, last_dmc_output |-> last_dmc, panicked |-> TRUE]
        ELSE IF drawn_3.panicked
          THEN [rects |-> drawn_3.rects, last_dmc_output |-> last_dmc, panicked |-> TRUE]
        ELSE IF drawn_4.panicked
          THEN [rects |-> drawn_4.rects, last_dmc_output |-> last_dmc, panicked |-> TRUE]
        ELSE [rects |-> drawn_5, last_dmc_output |-> apu.dmc.output_level,
              panicked |-> FALSE]

\* draw_headers: the three frequencies written under the channel names
draw_headers(apu) ==
    << "PULSE 1", Format2(pulse_channel_state(apu.pulse_1).frequency),
       "PULSE 2", Format2(pulse_channel_state(apu.pulse_2).frequency),
       "TRIANGLE", Format2(triangle_channel_state(apu.triangle).frequency) >>

(***************************************************************************)
(* PianoRollWindow::update                                                 *)
(***************************************************************************)
\* shift_playfield_left: every column takes the pixels of the column to its
\* right; the rightmost column keeps its own
shift_playfield_left(columns) == Tail(columns) \o <<columns[Len(columns)]>>

\* draw_piano_keys and draw_percussion_keys: the key background covers what the
\* note field and the percussion field of the column showed
draw_keys(column) == [keys |-> TRUE, rects |-> SelectSeq(column.rects, InDmcField)]

\* update after its test of the frame counter
update_frame(window_buffer, last_dmc, console, overflow_checks) ==
    LET shifted == shift_playfield_left(window_buffer.columns)
        rightmost == Len(shifted)
        keyed == draw_keys(shifted[rightmost])
        drawn == draw_channels(keyed.rects, last_dmc, console.apu, overflow_checks)
    IN  [buffer |-> [header |-> IF drawn.panicked
                                  THEN <<>>       \* cleared, draw_headers not reached
                                  ELSE draw_headers(console.apu),
                     columns |-> [shifted EXCEPT ![rightmost] =
                                    [keys |-> TRUE, rects |-> drawn.rects]]],
         last_frame |-> console.ppu.current_frame,
         last_dmc_output |-> drawn.last_dmc_output,
         nes |-> console,
         panicked |-> drawn.panicked]

\* update without the test of the frame counter
update_SkipsPauseCheck(window_buffer, last, last_dmc, console, overflow_checks) ==
    update_frame(window_buffer, last_dmc, console, overflow_checks)

\* update that marks the frame it has drawn as consumed in the console
update_ConsumesFrame(window_buffer, last, last_dmc, console, overflow_checks) ==
    IF console.ppu.current_frame = last
      THEN [buffer |-> window_buffer, last_frame |-> last, last_dmc_output |-> last_dmc,
            nes |-> console, panicked |-> FALSE]
      ELSE [update_frame(window_buffer, last_dmc, console, overflow_checks)
              EXCEPT !.nes = [console EXCEPT !.apu.dmc.output_level = 0]]

\* update: the window and the console after the call
update(window_buffer, last, last_dmc, console, overflow_checks) ==
    IF console.ppu.current_frame = last
      THEN \* We're paused! Bail on all drawing.
           [buffer |-> window_buffer, last_frame |-> last, last_dmc_output |-> last_dmc,
            nes |-> console, panicked |-> FALSE]
      ELSE update_frame(window_buffer, last_dmc, console, overflow_checks)

\* the APU states of the consoles shown
ApuStates ==
    { PowerOnApu,
      Apu(PulseChannel(15, 10, 253), PulseChannel(0, 10, 100), TriangleChannel(5, 3, 126),
          NoiseChannel(9, 4, 4068, 0), Dmc(FALSE, 64)),
      Apu(PulseChannel(7, 0, 253), PulseChannel(1, 8, 2047), TriangleChannel(5, 3, 1100),
          NoiseChannel(9, 4, 5, 1), Dmc(TRUE, 0)),
      Apu(PulseChannel(4, 2, 0), PulseChannel(15, 0, 100), TriangleChannel(5, 3, 2),
          NoiseChannel(0, 4, 762, 0), Dmc(FALSE, 127)),
      Apu(PulseChannel(8, 1, 100), PulseChannel(8, 1, 126), TriangleChannel(0, 3, 253),
          NoiseChannel(12, 0, 16, 1), Dmc(FALSE, 10)),
      Apu(PulseChannel(0, 0, 0), PulseChannel(15, 1, 253), TriangleChannel(5, 0, 253),
          NoiseChannel(15, 1, 2034, 0), Dmc(TRUE, 127)),
      Apu(PulseChannel(0, 0, 0), PulseChannel(0, 0, 0), TriangleChannel(1, 1, 1063),
          NoiseChannel(0, 0, 0, 0), Dmc(TRUE, 0)) }

\* the emulator runs the console between two calls of update: the APU changes,
\* and the frame counter stays (paused, or inside a frame) or advances
NesRuns ==
    /\ PianoAlive
    /\ \E frame \in {nes.ppu.current_frame, nes.ppu.current_frame + 1}, apu \in ApuStates :
         /\ frame <= MaxPpuFrame
         /\ nes' = [ppu |-> [current_frame |-> frame], apu |-> apu]
    /\ piano_call' = [op |-> "run", panicked |-> FALSE]
    /\ UNCHANGED <<buffer, last_frame, last_dmc_output>>

\* update in a build with overflow checks (debug) or without them (release)
PianoUpdate ==
    /\ PianoAlive
    /\ \E overflow_checks \in BOOLEAN :
         LET done == update(buffer, last_frame, last_dmc_output, nes, overflow_checks)
         IN  /\ buffer' = done.buffer
             /\ last_frame' = done.last_frame
             /\ last_dmc_output' = done.last_dmc_output
             /\ nes' = done.nes
             /\ piano_call' = [op |-> "update", panicked |-> done.panicked,
                               paused |-> nes.ppu.current_frame = last_frame]

PianoNext ==
    \/ NesRuns /\ UNCHANGED <<gxVars, shellVars>>
    \/ PianoUpdate /\ UNCHANGED <<gxVars, shellVars>>

(***************************************************************************)
(* RusticoGameWindow: paths, files and events                              *)
(***************************************************************************)
\* PathBuf::new()
EmptyPath == [stem |-> "", ext |-> "", utf8 |-> TRUE]

\* the files the dialog can return; a file name need not be valid UTF-8
CartridgePaths ==
    { [stem |-> "zelda", ext |-> "nes", utf8 |-> TRUE],
      [stem |-> "tune", ext |-> "nsf", utf8 |-> TRUE],
      [stem |-> "raw_bytes", ext |-> "nes", utf8 |-> FALSE] }

\* Path::with_extension: a path without a file name is returned as it is
with_extension(path, extension) ==
    IF path.stem = "" THEN path ELSE [path EXCEPT !.ext = extension]

\* Path::to_string_lossy: bytes that are not UTF-8 become U+FFFD
to_string_lossy(path) ==
    [stem |-> path.stem, ext |-> path.ext, replaced |-> ~path.utf8]

\* Path::to_str: None for a path that is not valid UTF-8
to_str(path) ==
    IF path.utf8
      THEN [tag |-> "Some", str |-> [stem |-> path.stem, ext |-> path.ext, replaced |-> FALSE]]
      ELSE None

\* what std::fs::read can answer
Ok(bytes) == [tag |-> "Ok", bytes |-> bytes]
Err(reason) == [tag |-> "Err", reason |-> reason]
CartridgeReads == {Ok(<<78, 69, 83, 26>>), Err("NotFound")}
SramReads == {Ok(<<>>), Ok(<<1, 2>>), Err("NotFound")}

\* events::Event
StandardControllerPress(port, button) ==
    [type |-> "StandardControllerPress", port |-> port, button |-> button]
StandardControllerRelease(port, button) ==
    [type |-> "StandardControllerRelease", port |-> port, button |-> button]
RequestSramSave(path) == [type |-> "RequestSramSave", path |-> path]
LoadCartridge(path, cartridge_data, sram_data) ==
    [type |-> "LoadCartridge", path |-> path, cartridge_data |-> cartridge_data,
     sram_data |-> sram_data]
LoadFailed(reason) == [type |-> "LoadFailed", reason |-> reason]
CloseApplication == [type |-> "CloseApplication"]

\* ShellEvent (main.rs:21-26)
ImageRendered(id, canvas) == [type |-> "ImageRendered", id |-> id, canvas |-> canvas]
HasSram(b) == [type |-> "HasSram", has_sram |-> b]
SettingsUpdated(settings_object) ==
    [type |-> "SettingsUpdated", settings_object |-> settings_object]

\* SettingsState::new(), and the states the worker reports later
DefaultSettings == "defaults"
SettingsStates == {"overscan_hidden", "scale_3"}

\* Option<String>: the path of a save request the worker has handled
NoPath == [tag |-> "None"]
SomePath(str) == [tag |-> "Some", str |-> str]

\* the blank image the texture is loaded with in new: frame 0, shown before any
\* frame of the worker, whose frames are numbered from 1
blank_canvas == 0

\* thread::spawn(worker_main) in main: the worker runs and has handled nothing
WorkerSpawned == [state |-> "running", sram_saved |-> NoPath, rendered |-> 0]

\* RusticoGameWindow::new; the channels of main start empty, the worker runs
ShellNew ==
    /\ old_p1_buttons_held = 0
    /\ sram_path = EmptyPath
    /\ runtime_tx = <<>>
    /\ shell_call = [op |-> "new", sent |-> <<>>, panicked |-> FALSE]
    /\ loaded_sav = EmptyPath
    /\ p1_sent = [last_pressed |-> {}, alternates |-> TRUE]
    /\ has_sram = FALSE
    /\ settings_cache = DefaultSettings
    /\ last_rendered_frames = [id \in {"game_window"} |-> <<>>]
    /\ game_window_scale = 2
    /\ texture_handle = blank_canvas
    /\ shell_rx = <<>>
    /\ shell_pc = "idle"
    /\ worker = WorkerSpawned
    /\ main_state = "running"

\* no mapper is part of the shell: the GxRom variables hold one fresh mapper
GxIdle ==
    /\ prg_rom = [len |-> PRG_BANK_SIZE, seed |-> 0]
    /\ chr_rom = [len |-> CHR_BANK_SIZE, seed |-> 1]
    /\ mirroring = "Horizontal"
    /\ prg_bank = 0
    /\ chr_bank = 0
    /\ gx_call = [op |-> "new", address |-> -1, data |-> -1, result |-> None]
    /\ gx_written = -1

\* a panic on the UI thread ends the process
ShellAlive == ~shell_call.panicked

\* eframe calls update, and the handlers under it, until it has called on_exit
ShellRunning == ShellAlive /\ shell_call.op # "on_exit"

\* update is between two of its calls
ShellIdle == ShellRunning /\ shell_pc = "idle"

\* the worker's runtime_rx.recv(): the oldest event leaves the channel and is
\* handled; CloseApplication ends worker_main
WorkerRecv ==
    /\ worker.state = "running"
    /\ runtime_tx # <<>>
    /\ runtime_tx' = Tail(runtime_tx)
    /\ worker' = LET event == Head(runtime_tx)
                 IN  [worker EXCEPT
                        !.state = IF event.type = "CloseApplication"
                                    THEN "returned" ELSE @,
                        !.sram_saved = IF event.type = "RequestSramSave"
                                         THEN SomePath(event.path) ELSE @]
    /\ UNCHANGED <<old_p1_buttons_held, p1_sent, sram_path, shell_call, loaded_sav,
                   frameVars, shell_rx, shell_pc, main_state>>

(***************************************************************************)
(* apply_player_input                                                      *)
(***************************************************************************)
\* the key read for bit i of p1_buttons_held, and the button sent for it
KeyOfBit == <<"X", "Z", "Backspace", "Enter",
              "ArrowUp", "ArrowDown", "ArrowLeft", "ArrowRight">>
ButtonOfBit == <<"A", "B", "Select", "Start",
                 "DPadUp", "DPadDown", "DPadLeft", "DPadRight">>

\* the keys the shell reads
MappedKeys == {KeyOfBit[i] : i \in 1..8}

\* i.keys_down: some of the keys the shell reads, or a key it does not read
KeysDownInputs ==
    {k \in SUBSET MappedKeys : Cardinality(k) <= MaxKeysDown}
        \cup {{"Escape"}, {"Escape", "X"}}

\* 1 << i
Shl1(i) == Pow2(i)

\* if i.keys_down.contains(..) {p1_buttons_held |= 1 << i;}  for bits i..7
RECURSIVE HeldFrom(_, _)
HeldFrom(keys_down, i) ==
    IF i > 7 THEN 0
    ELSE (IF KeyOfBit[i + 1] \in keys_down THEN Shl1(i) ELSE 0) + HeldFrom(keys_down, i + 1)

p1_buttons_held(keys_down) == HeldFrom(keys_down, 0)

\* p1_buttons_released = !p1_buttons_held without the & old_p1_buttons_held
p1_buttons_released_NoOld(held, old) == BitNot(held)

\* p1_buttons_pressed = p1_buttons_held without the & !old_p1_buttons_held
p1_buttons_pressed_NoOld(held, old) == held

p1_buttons_pressed(held, old) == BitAnd(held, BitNot(old))
p1_buttons_released(held, old) == BitAnd(BitNot(held), old)

\* the chain of  if (mask & (1 << i)) != 0 { send(Event(0, button)) }  for bits i..7
RECURSIVE SendsFrom(_, _, _)
SendsFrom(mask, event, i) ==
    IF i > 7 THEN <<>>
    ELSE (IF BitAnd(mask, Shl1(i)) # 0
            THEN IF event = "Press"
                   THEN <<StandardControllerPress(0, ButtonOfBit[i + 1])>>
                   ELSE <<StandardControllerRelease(0, ButtonOfBit[i + 1])>>
            ELSE <<>>)
         \o SendsFrom(mask, event, i + 1)

\* the record of the button events sent, after the events of one more poll:
\* the buttons whose last event was a Press, and whether every Press so far
\* came to a button not pressed and every Release to a pressed one
RECURSIVE EventsSent(_, _)
EventsSent(history, sent) ==
    IF sent = <<>> THEN history
    ELSE LET event == Head(sent)
             was_pressed == event.button \in history.last_pressed
         IN  EventsSent(
               IF event.type = "StandardControllerPress"
                 THEN [last_pressed |-> history.last_pressed \cup {event.button},
                       alternates |-> history.alternates /\ ~was_pressed]
                 ELSE [last_pressed |-> history.last_pressed \ {event.button},
                       alternates |-> history.alternates /\ was_pressed],
               Tail(sent))

\* the two chains of sends, tabulated once for every u8 mask
PressSends == [mask \in 0..255 |-> SendsFrom(mask, "Press", 0)]
ReleaseSends == [mask \in 0..255 |-> SendsFrom(mask, "Release", 0)]

ApplyPlayerInput ==
    /\ ShellIdle
    /\ runtime_tx = <<>>        \* the worker has emptied the channel since the last frame
    /\ \E keys_down \in KeysDownInputs :
         LET held     == p1_buttons_held(keys_down)
             pressed  == p1_buttons_pressed(held, old_p1_buttons_held)
             released == p1_buttons_released(held, old_p1_buttons_held)
             sent     == PressSends[pressed] \o ReleaseSends[released]
         IN  /\ runtime_tx' = runtime_tx \o sent
             /\ old_p1_buttons_held' = held
             /\ p1_sent' = EventsSent(p1_sent, sent)
             /\ shell_call' = [op |-> "apply_player_input", sent |-> sent,
                               panicked |-> FALSE, keys_down |-> keys_down,
                               old_held |-> old_p1_buttons_held]
    /\ UNCHANGED <<sram_path, loaded_sav, frameVars, shell_rx, shell_pc,
                   worker, main_state>>

InputNext ==
    \/ ApplyPlayerInput /\ UNCHANGED <<gxVars, pianoVars>>
    \/ WorkerRecv /\ UNCHANGED <<gxVars, pianoVars>>

InputInit == ShellNew /\ GxIdle /\ PianoIdle

SpecInput == InputInit /\ [][InputNext]_vars

(***************************************************************************)
(* open_cartridge                                                          *)
(***************************************************************************)
\* request_sram_save: the event it sends
request_sram_save(path) == RequestSramSave(to_string_lossy(path))

\* open_cartridge: [sram_path, sent, panicked] for a path and what the reads answer
open_cartridge(old_sram_path, cartridge_path, cartridge_read, sram_read) ==
    LET save_request == request_sram_save(old_sram_path)
        new_sram_path == with_extension(cartridge_path, "sav")
        cartridge_path_as_str == to_string_lossy(cartridge_path)
    IN  IF cartridge_read.tag = "Ok"
          THEN IF to_str(new_sram_path) = None
                 THEN \* .to_str().unwrap() panics before the event is built
                      [sram_path |-> new_sram_path, sent |-> <<save_request>>,
                       panicked |-> TRUE]
               ELSE IF sram_read.tag = "Ok"
                 THEN [sram_path |-> new_sram_path,
                       sent |-> <<save_request,
                                  LoadCartridge(cartridge_path_as_str,
                                                cartridge_read.bytes, sram_read.bytes)>>,
                       panicked |-> FALSE]
               ELSE [sram_path |-> new_sram_path,
                     sent |-> <<save_request,
                                LoadCartridge(cartridge_path_as_str,
                                              cartridge_read.bytes, <<>>)>>,
                     panicked |-> FALSE]
          ELSE [sram_path |-> new_sram_path,
                sent |-> <<save_request, LoadFailed(cartridge_read.reason)>>,
                panicked |-> FALSE]

OpenCartridge ==
    /\ ShellIdle
    /\ Len(runtime_tx) <= MaxChannel
    /\ \E cartridge_path \in CartridgePaths,
          cartridge_read \in CartridgeReads, sram_read \in SramReads :
         LET done == open_cartridge(sram_path, cartridge_path, cartridge_read, sram_read)
             loaded == \E i \in 1..Len(done.sent) : done.sent[i].type = "LoadCartridge"
         IN  /\ sram_path' = done.sram_path
             /\ runtime_tx' = runtime_tx \o done.sent
             /\ loaded_sav' = IF loaded THEN done.sram_path ELSE loaded_sav
             /\ shell_call' = [op |-> "open_cartridge", sent |-> done.sent,
                               panicked |-> done.panicked,
                               cartridge_path |-> cartridge_path,
                               cartridge_read |-> cartridge_read,
                               sram_read |-> sram_read,
                               old_sram_path |-> sram_path,
                               old_loaded_sav |-> loaded_sav]
    /\ UNCHANGED <<old_p1_buttons_held, p1_sent, frameVars, shell_rx, shell_pc,
                   worker, main_state>>

(***************************************************************************)
(* the shell events of the worker, process_shell_events, handle_event      *)
(***************************************************************************)
\* worker::RenderedImage: the frame-th image the worker rendered, and its scale
RenderedImage(frame, scale) == [frame |-> frame, scale |-> scale]

\* the panels the worker renders, and the scales it renders them at
PanelIds == {"game_window", "piano_roll_window"}
CanvasScales == {2, 3}

\* the worker's shell_tx.send(event)
WorkerSends(event) ==
    /\ worker.state = "running"
    /\ Len(shell_rx) < MaxShellRx
    /\ shell_rx' = Append(shell_rx, event)

WorkerSendFrame ==
    /\ worker.rendered < MaxFrames
    /\ \E id \in PanelIds, scale \in CanvasScales :
         WorkerSends(ImageRendered(id, RenderedImage(worker.rendered + 1, scale)))
    /\ worker' = [worker EXCEPT !.rendered = @ + 1]
    /\ UNCHANGED <<old_p1_buttons_held, p1_sent, sram_path, runtime_tx, shell_call, loaded_sav,
                   frameVars, shell_pc, main_state>>

WorkerSendHasSram ==
    /\ \E b \in BOOLEAN : WorkerSends(HasSram(b))
    /\ UNCHANGED <<old_p1_buttons_held, p1_sent, sram_path, runtime_tx, shell_call, loaded_sav,
                   frameVars, shell_pc, worker, main_state>>

WorkerSendSettings ==
    /\ \E settings_object \in SettingsStates : WorkerSends(SettingsUpdated(settings_object))
    /\ UNCHANGED <<old_p1_buttons_held, p1_sent, sram_path, runtime_tx, shell_call, loaded_sav,
                   frameVars, shell_pc, worker, main_state>>

\* the worker thread panics: worker_main unwinds and drops shell_tx
WorkerPanic ==
    /\ worker.state = "running"
    /\ main_state = "running"
    /\ worker' = [worker EXCEPT !.state = "panicked"]
    /\ UNCHANGED <<old_p1_buttons_held, p1_sent, sram_path, runtime_tx, shell_call, loaded_sav,
                   frameVars, shell_rx, shell_pc, main_state>>

\* handle_event that opens a queue for a panel it has not seen before
handle_event_InsertsQueue(frames, sram, settings, event) ==
    IF event.type = "ImageRendered"
      THEN IF event.id \in DOMAIN frames
             THEN LET pushed == Append(frames[event.id], event.canvas)
                  IN  [last_rendered_frames |->
                         [frames EXCEPT ![event.id] =
                            IF Len(pushed) > 2 THEN Tail(pushed) ELSE pushed],
                       has_sram |-> sram, settings_cache |-> settings,
                       sent |-> <<>>, printed |-> FALSE]
             ELSE [last_rendered_frames |->
                     [id \in DOMAIN frames \cup {event.id} |->
                        IF id \in DOMAIN frames THEN frames[id] ELSE <<event.canvas>>],
                   has_sram |-> sram,
                   settings_cache |-> settings, sent |-> <<>>, printed |-> FALSE]
    ELSE IF event.type = "HasSram"
      THEN [last_rendered_frames |-> frames, has_sram |-> event.has_sram,
            settings_cache |-> settings, sent |-> <<>>, printed |-> FALSE]
    ELSE [last_rendered_frames |-> frames, has_sram |-> sram,
          settings_cache |-> event.settings_object, sent |-> <<>>, printed |-> FALSE]

\* handle_event with a push that keeps three frames
handle_event_KeepsThree(frames, sram, settings, event) ==
    IF event.type = "ImageRendered"
      THEN IF event.id \in DOMAIN frames
             THEN LET pushed == Append(frames[event.id], event.canvas)
                  IN  [last_rendered_frames |->
                         [frames EXCEPT ![event.id] =
                            IF Len(pushed) > 3 THEN Tail(pushed) ELSE pushed],
                       has_sram |-> sram, settings_cache |-> settings,
                       sent |-> <<>>, printed |-> FALSE]
             ELSE [last_rendered_frames |-> frames, has_sram |-> sram,
                   settings_cache |-> settings, sent |-> <<>>, printed |-> TRUE]
    ELSE IF event.type = "HasSram"
      THEN [last_rendered_frames |-> frames, has_sram |-> event.has_sram,
            settings_cache |-> settings, sent |-> <<>>, printed |-> FALSE]
    ELSE [last_rendered_frames |-> frames, has_sram |-> sram,
          settings_cache |-> event.settings_object, sent |-> <<>>, printed |-> FALSE]

\* handle_event that asks for a save when the worker reports save memory
handle_event_SavesOnSram(frames, sram, settings, event) ==
    IF event.type = "ImageRendered"
      THEN IF event.id \in DOMAIN frames
             THEN LET pushed == Append(frames[event.id], event.canvas)
                  IN  [last_rendered_frames |->
                         [frames EXCEPT ![event.id] =
                            IF Len(pushed) > 2 THEN Tail(pushed) ELSE pushed],
                       has_sram |-> sram, settings_cache |-> settings,
                       sent |-> <<>>, printed |-> FALSE]
             ELSE [last_rendered_frames |-> frames, has_sram |-> sram,
                   settings_cache |-> settings, sent |-> <<>>, printed |-> TRUE]
    ELSE IF event.type = "HasSram"
      THEN [last_rendered_frames |-> frames, has_sram |-> event.has_sram,
            settings_cache |-> settings,
            sent |-> IF event.has_sram THEN <<RequestSramSave("")>> ELSE <<>>,
            printed |-> FALSE]
    ELSE [last_rendered_frames |-> frames, has_sram |-> sram,
          settings_cache |-> event.settings_object, sent |-> <<>>, printed |-> FALSE]

\* handle_event: the fields after the event, the runtime events sent (none),
\* and whether the unknown-panel message was printed
handle_event(frames, sram, settings, event) ==
    IF event.type = "ImageRendered"
      THEN IF event.id \in DOMAIN frames
             THEN LET pushed == Append(frames[event.id], event.canvas)     \* push_back
                  IN  [last_rendered_frames |->
                         [frames EXCEPT ![event.id] =
                            IF Len(pushed) > 2 THEN Tail(pushed) ELSE pushed],
                       has_sram |-> sram, settings_cache |-> settings,
                       sent |-> <<>>, printed |-> FALSE]
             ELSE [last_rendered_frames |-> frames, has_sram |-> sram,
                   settings_cache |-> settings, sent |-> <<>>, printed |-> TRUE]
    ELSE IF event.type = "HasSram"
      THEN [last_rendered_frames |-> frames, has_sram |-> event.has_sram,
            settings_cache |-> settings, sent |-> <<>>, printed |-> FALSE]
    ELSE \* Arc::unwrap_or_clone: the value the Arc holds
         [last_rendered_frames |-> frames, has_sram |-> sram,
          settings_cache |-> event.settings_object, sent |-> <<>>, printed |-> FALSE]

\* process_shell_events whose loop goes on after Err(TryRecvError::Empty)
ProcessShellEvents_SpinsOnEmpty ==
    /\ ShellRunning
    /\ \/ /\ shell_rx # <<>>
          /\ LET event == Head(shell_rx)
                 done == handle_event(last_rendered_frames, has_sram, settings_cache, event)
             IN  /\ shell_rx' = Tail(shell_rx)
                 /\ last_rendered_frames' = done.last_rendered_frames
                 /\ has_sram' = done.has_sram
                 /\ settings_cache' = done.settings_cache
                 /\ runtime_tx' = runtime_tx \o done.sent
                 /\ shell_call' = [op |-> "handle_event", sent |-> done.sent,
                                   panicked |-> FALSE, event |-> event,
                                   printed |-> done.printed,
                                   old_frames |-> last_rendered_frames]
          /\ shell_pc' = "process_shell_events"
          /\ UNCHANGED <<game_window_scale, texture_handle>>
       \/ /\ shell_rx = <<>>
          /\ worker.state = "running"
          /\ shell_call' = [op |-> "process_shell_events", sent |-> <<>>,
                            panicked |-> FALSE]
          /\ UNCHANGED <<frameVars, shell_rx, runtime_tx, shell_pc>>
       \/ /\ shell_rx = <<>>
          /\ worker.state # "running"
          /\ shell_call' = [op |-> "process_shell_events", sent |-> <<>>,
                            panicked |-> TRUE]
          /\ UNCHANGED <<frameVars, shell_rx, runtime_tx, shell_pc>>
    /\ UNCHANGED <<old_p1_buttons_held, p1_sent, sram_path, loaded_sav, worker, main_state>>

\* process_shell_events, one shell_rx.try_recv() of its loop per step
ProcessShellEvents ==
    /\ ShellRunning
    /\ \/ \* Ok(event)
          /\ shell_rx # <<>>
          /\ LET event == Head(shell_rx)
                 done == handle_event(last_rendered_frames, has_sram, settings_cache, event)
             IN  /\ shell_rx' = Tail(shell_rx)
                 /\ last_rendered_frames' = done.last_rendered_frames
                 /\ has_sram' = done.has_sram
                 /\ settings_cache' = done.settings_cache
                 /\ runtime_tx' = runtime_tx \o done.sent
                 /\ shell_call' = [op |-> "handle_event", sent |-> done.sent,
                                   panicked |-> FALSE, event |-> event,
                                   printed |-> done.printed,
                                   old_frames |-> last_rendered_frames]
          /\ shell_pc' = "process_shell_events"
          /\ UNCHANGED <<game_window_scale, texture_handle>>
       \/ \* Err(TryRecvError::Empty)
          /\ shell_rx = <<>>
          /\ worker.state = "running"
          /\ shell_pc' = "idle"
          /\ shell_call' = [op |-> "process_shell_events", sent |-> <<>>,
                            panicked |-> FALSE]
          /\ UNCHANGED <<frameVars, shell_rx, runtime_tx>>
       \/ \* Err(TryRecvError::Disconnected)
          /\ shell_rx = <<>>
          /\ worker.state # "running"
          /\ shell_call' = [op |-> "process_shell_events", sent |-> <<>>,
                            panicked |-> TRUE]
          /\ UNCHANGED <<frameVars, shell_rx, runtime_tx, shell_pc>>
    /\ UNCHANGED <<old_p1_buttons_held, p1_sent, sram_path, loaded_sav, worker, main_state>>

(***************************************************************************)
(* process_rendered_frames                                                 *)
(***************************************************************************)
\* process_rendered_frames that shows the newest queued frame (pop_back)
process_rendered_frames_PopsBack(frames, texture, scale) ==
    IF "game_window" \in DOMAIN frames
      THEN LET game_window_frame_buffer == frames["game_window"]
           IN  IF game_window_frame_buffer # <<>>
                 THEN LET n == Len(game_window_frame_buffer)
                          canvas == game_window_frame_buffer[n]
                      IN  [last_rendered_frames |->
                             [frames EXCEPT !["game_window"] =
                                SubSeq(game_window_frame_buffer, 1, n - 1)],
                           texture_handle |-> canvas.frame,
                           game_window_scale |-> canvas.scale,
                           panicked |-> FALSE]
                 ELSE [last_rendered_frames |-> frames, texture_handle |-> texture,
                       game_window_scale |-> scale, panicked |-> FALSE]
      ELSE [last_rendered_frames |-> frames, texture_handle |-> texture,
            game_window_scale |-> scale, panicked |-> TRUE]

\* process_rendered_frames: the queues, the texture and the scale after it
process_rendered_frames(frames, texture, scale) ==
    IF "game_window" \in DOMAIN frames
      THEN LET game_window_frame_buffer == frames["game_window"]
           IN  IF game_window_frame_buffer # <<>>
                 THEN LET canvas == Head(game_window_frame_buffer)       \* pop_front
                      IN  [last_rendered_frames |->
                             [frames EXCEPT !["game_window"] = Tail(game_window_frame_buffer)],
                           texture_handle |-> canvas.frame,
                           game_window_scale |-> canvas.scale,
                           panicked |-> FALSE]
                 ELSE [last_rendered_frames |-> frames, texture_handle |-> texture,
                       game_window_scale |-> scale, panicked |-> FALSE]
      ELSE [last_rendered_frames |-> frames, texture_handle |-> texture,
            game_window_scale |-> scale, panicked |-> TRUE]

ProcessRenderedFrames ==
    /\ ShellIdle
    /\ LET done == process_rendered_frames(last_rendered_frames, texture_handle,
                                           game_window_scale)
       IN  /\ last_rendered_frames' = done.last_rendered_frames
           /\ texture_handle' = done.texture_handle
           /\ game_window_scale' = done.game_window_scale
           /\ shell_call' = [op |-> "process_rendered_frames", sent |-> <<>>,
                             panicked |-> done.panicked,
                             old_frames |-> last_rendered_frames]
    /\ UNCHANGED <<old_p1_buttons_held, p1_sent, sram_path, runtime_tx, loaded_sav, has_sram,
                   settings_cache, shell_rx, shell_pc, worker, main_state>>

FramesNext ==
    \/ WorkerSendFrame /\ UNCHANGED <<gxVars, pianoVars>>
    \/ WorkerSendHasSram /\ UNCHANGED <<gxVars, pianoVars>>
    \/ WorkerSendSettings /\ UNCHANGED <<gxVars, pianoVars>>
    \/ WorkerPanic /\ UNCHANGED <<gxVars, pianoVars>>
    \/ ProcessShellEvents /\ UNCHANGED <<gxVars, pianoVars>>
    \/ ProcessRenderedFrames /\ UNCHANGED <<gxVars, pianoVars>>

FramesInit == ShellNew /\ GxIdle /\ PianoIdle

SpecFrames == FramesInit /\ [][FramesNext]_vars

\* process_shell_events against a worker that sends frames (finitely many) and
\* save-memory reports (as many as it likes) and may panic
ShellLoopNext ==
    \/ WorkerSendFrame /\ UNCHANGED <<gxVars, pianoVars>>
    \/ WorkerSendHasSram /\ UNCHANGED <<gxVars, pianoVars>>
    \/ WorkerPanic /\ UNCHANGED <<gxVars, pianoVars>>
    \/ ProcessShellEvents /\ UNCHANGED <<gxVars, pianoVars>>

\* the loop of process_shell_events is code running on the UI thread: once
\* entered, its next try_recv is eventually made
SpecShellLoop ==
    FramesInit /\ [][ShellLoopNext]_vars
               /\ WF_vars(ProcessShellEvents /\ UNCHANGED <<gxVars, pianoVars>>)

(***************************************************************************)
(* the Save SRAM menu entry, on_exit and the end of main                   *)
(***************************************************************************)
\* File > Save SRAM, enabled by has_sram
SaveSramMenu ==
    /\ ShellIdle
    /\ has_sram
    /\ Len(runtime_tx) <= MaxChannel
    /\ LET sent == <<request_sram_save(sram_path)>>
       IN  /\ runtime_tx' = runtime_tx \o sent
           /\ shell_call' = [op |-> "request_sram_save", sent |-> sent,
                             panicked |-> FALSE]
    /\ UNCHANGED <<old_p1_buttons_held, p1_sent, sram_path, loaded_sav, frameVars, shell_rx,
                   shell_pc, worker, main_state>>

\* on_exit that asks the worker to close before it asks for the save
on_exit_CloseFirst(path) == <<CloseApplication, request_sram_save(path)>>

\* on_exit: the events it sends
on_exit(path) == <<request_sram_save(path), CloseApplication>>

OnExit ==
    /\ ShellIdle
    /\ Len(runtime_tx) <= MaxChannel
    /\ LET sent == on_exit(sram_path)
       IN  /\ runtime_tx' = runtime_tx \o sent
           /\ shell_call' = [op |-> "on_exit", sent |-> sent, panicked |-> FALSE]
    /\ UNCHANGED <<old_p1_buttons_held, p1_sent, sram_path, loaded_sav, frameVars, shell_rx,
                   shell_pc, worker, main_state>>

\* main after run_native has returned: worker_handle.join().expect(..), return
MainJoin ==
    /\ main_state = "running"
    /\ shell_call.op = "on_exit"
    /\ worker.state # "running"
    /\ main_state' = IF worker.state = "returned" THEN "returned" ELSE "panicked"
    /\ UNCHANGED <<old_p1_buttons_held, p1_sent, sram_path, runtime_tx, shell_call, loaded_sav,
                   frameVars, shell_rx, shell_pc, worker>>

CartridgeNext ==
    \/ OpenCartridge /\ UNCHANGED <<gxVars, pianoVars>>
    \/ SaveSramMenu /\ UNCHANGED <<gxVars, pianoVars>>
    \/ OnExit /\ UNCHANGED <<gxVars, pianoVars>>
    \/ MainJoin /\ UNCHANGED <<gxVars, pianoVars>>
    \/ WorkerRecv /\ UNCHANGED <<gxVars, pianoVars>>
    \/ WorkerSendHasSram /\ UNCHANGED <<gxVars, pianoVars>>
    \/ WorkerPanic /\ UNCHANGED <<gxVars, pianoVars>>
    \/ ProcessShellEvents /\ UNCHANGED <<gxVars, pianoVars>>

CartridgeInit == ShellNew /\ GxIdle /\ PianoIdle

SpecCartridge == CartridgeInit /\ [][CartridgeNext]_vars

GxInit == GxNew /\ ShellNew /\ PianoIdle

SpecGxRom == GxInit /\ [][GxNext]_vars

ChannelsInit ==
    /\ nes \in {[ppu |-> [current_frame |-> 0], apu |-> apu] : apu \in ChannelProbes}
    /\ PianoNew
    /\ ShellNew
    /\ GxIdle

SpecChannels == ChannelsInit /\ [][ChannelsNext]_vars

PianoInit == PianoIdle /\ ShellNew /\ GxIdle

SpecPiano == PianoInit /\ [][PianoNext]_vars

(***************************************************************************)
(* GxRom: properties                                                       *)
(***************************************************************************)
\* the addresses read_byte claims, and the ones write_byte claims
ChrWindow == 0..8191
PrgWindow == 32768..65535

WholeBanks(rom, bank_size) == rom.len >= bank_size /\ rom.len % bank_size = 0

\* C1: read_byte on a claimed address (0x0000-0x1FFF or 0x8000-0xFFFF) returns
\* Some(byte) and never faults, for every loaded storage, an empty CHR array
\* included.
C1_ClaimedReadReturnsByte ==
    (gx_call.op = "read" /\ gx_call.address \in (ChrWindow \cup PrgWindow))
        => gx_call.result.tag = "Some"

\* C2: with storage of a whole number (at least one) of banks, after
\* write_byte(a, v) with a in 0x8000-0xFFFF every PRG read returns the byte at
\* the same offset of bank ((v >> 4) & 3) mod prg_bank_count, and every CHR
\* read the byte at the same offset of bank (v & 3) mod chr_bank_count.
C2_BankSelectWraps ==
    (gx_call.op = "read" /\ gx_written >= 0) =>
        LET v == gx_written
            a == gx_call.address
        IN  /\ (a \in PrgWindow /\ WholeBanks(prg_rom, 32768)) =>
                  LET count == prg_rom.len \div 32768
                      bank  == ((v \div 16) % 4) % count
                  IN  /\ bank * 32768 + (a - 32768) < prg_rom.len
                      /\ gx_call.result
                           = Some(RomByte(prg_rom, bank * 32768 + (a - 32768)))
            /\ (a \in ChrWindow /\ WholeBanks(chr_rom, 8192)) =>
                  LET count == chr_rom.len \div 8192
                      bank  == (v % 4) % count
                  IN  /\ bank * 8192 + a < chr_rom.len
                      /\ gx_call.result = Some(RomByte(chr_rom, bank * 8192 + a))

\* a PRG read with bank select 3 written to a 2-bank cartridge: bank 3 mod 2 = 1
C2_Witness ==
    /\ gx_call.op = "read"
    /\ gx_call.address = 65535
    /\ gx_written = 255
    /\ prg_rom.len = 65536
    /\ gx_call.result = Some(RomByte(prg_rom, 65535))

\* storage[(bank_register * bank_size + (address - base)) mod storage.len()]
GeneralizedFormula(storage, bank_register, bank_size, address, base) ==
    RomByte(storage, (bank_register * bank_size + (address - base)) % storage.len)

\* C3: read_byte implements the generalized bank formula: a PRG read returns
\* prg_rom[(prg_bank * 0x8000 + (address - 0x8000)) mod prg_rom.len()], a CHR
\* read chr_rom[(chr_bank * 0x2000 + (address - 0)) mod chr_rom.len()], for
\* every claimed address and bank state (the formula has a value only for
\* storage that is not empty).
C3_GeneralizedBankFormula ==
    gx_call.op = "read" =>
        /\ (gx_call.address \in PrgWindow /\ prg_rom.len > 0) =>
              gx_call.result =
                Some(GeneralizedFormula(prg_rom, prg_bank, 32768, gx_call.address, 32768))
        /\ (gx_call.address \in ChrWindow /\ chr_rom.len > 0) =>
              gx_call.result =
                Some(GeneralizedFormula(chr_rom, chr_bank, 8192, gx_call.address, 0))

\* a read of storage that is not a whole number of banks, where the modulo
\* wraps inside a bank: (1 * 0x8000 + 0x7FFF) mod 0x6000 = 0x3FFF
C3_Witness ==
    /\ gx_call.op = "read"
    /\ gx_call.address = 65535
    /\ prg_bank = 1
    /\ prg_rom.len = 24576
    /\ gx_call.result = Some(RomByte(prg_rom, 16383))

\* the data bytes that differ from d at most in bits 2, 3, 6, 7
SameSelectBits(d) ==
    {(d % 4) + 4 * x + 16 * ((d \div 16) % 4) + 64 * y : x \in 0..3, y \in 0..3}

\* C4: in every reachable state prg_bank and chr_bank are in 0..3, and data
\* bytes that differ only in bits 2, 3, 6, 7 written to the same address leave
\* the mapper in the same state.
C4_BankRegistersMasked ==
    /\ (prg_bank \in 0..3 /\ chr_bank \in 0..3)
    /\ [][ /\ prg_bank' \in 0..3
           /\ chr_bank' \in 0..3
           /\ gx_call'.op = "write" =>
                \A d \in SameSelectBits(gx_call'.data) :
                    write_byte(prg_bank, chr_bank, gx_call'.address, d)
                        = <<prg_bank', chr_bank'>> ]_vars

\* 0xDE written to 0x8000: bits 2, 3, 6, 7 are set and dropped
C4_Witness ==
    /\ gx_call.op = "write"
    /\ gx_call.address = 32768
    /\ gx_call.data = 222
    /\ prg_bank = 1
    /\ chr_bank = 2

\* C5: write_byte to an address in 0x0000-0x7FFF, with any data byte, never
\* panics and leaves prg_bank, chr_bank, mirroring, prg_rom and chr_rom
\* unchanged.
C5_UnclaimedWriteIgnored ==
    [][ (gx_call'.op = "write" /\ gx_call'.address \in 0..32767) =>
            /\ gx_call'.result # Fault
            /\ UNCHANGED <<prg_bank, chr_bank, mirroring, prg_rom, chr_rom>> ]_vars

\* 0xFF written to 0x7FFF while the bank registers hold 1 and 2
C5_Witness ==
    /\ gx_call.op = "write"
    /\ gx_call.address = 32767
    /\ gx_call.data = 255
    /\ prg_bank = 1
    /\ chr_bank = 2

\* C6: read_byte returns None for every address in 0x2000-0x7FFF, in every
\* bank state, and Some for every other 16-bit address.
C6_NoneExactlyForUnclaimed ==
    gx_call.op = "read" =>
        IF gx_call.address \in 8192..32767
          THEN gx_call.result = None
          ELSE gx_call.result.tag = "Some"

\* C7: no sequence of read_byte, write_byte and mirroring calls changes
\* prg_rom, chr_rom or the value mirroring() returns; read_byte changes nothing.
C7_StorageImmutable ==
    [][ /\ UNCHANGED <<prg_rom, chr_rom, mirroring>>
        /\ gx_call'.op = "mirroring" => gx_call'.result.value = mirroring
        /\ gx_call'.op \in {"read", "mirroring"} => UNCHANGED <<prg_bank, chr_bank>>
      ]_vars

\* mirroring() called after the bank registers were written
C7_Witness ==
    /\ gx_call.op = "mirroring"
    /\ gx_written = 222
    /\ prg_bank = 1
    /\ gx_call.result.value = mirroring


(***************************************************************************)
(* RusticoGameWindow: properties                                           *)
(***************************************************************************)
\* how many of the events sent are e
Count(sent, e) == Cardinality({i \in 1..Len(sent) : sent[i] = e})

\* C8: in each input poll, for each of the 8 buttons of port 0 (bit 0..7 = A,
\* B, Select, Start, Up, Down, Left, Right) exactly one Press is sent iff the
\* button is held now and was not held at the previous poll, exactly one
\* Release iff it was held at the previous poll and is not held now, and no
\* event for a button whose held state did not change; what is held now is
\* what the next poll takes as held at the previous poll.
C8_PressReleaseOnEdges ==
    shell_call.op = "apply_player_input" =>
        LET Layout == <<"A", "B", "Select", "Start",
                        "DPadUp", "DPadDown", "DPadLeft", "DPadRight">>
            Key == <<"X", "Z", "Backspace", "Enter",
                     "ArrowUp", "ArrowDown", "ArrowLeft", "ArrowRight">>
            now(b) == Key[b + 1] \in shell_call.keys_down
            before(b) == (shell_call.old_held \div (2 ^ b)) % 2 = 1
            changed == {b \in 0..7 : now(b) # before(b)}
        IN  /\ \A b \in 0..7 :
                 /\ Count(shell_call.sent, StandardControllerPress(0, Layout[b + 1]))
                      = IF now(b) /\ ~before(b) THEN 1 ELSE 0
                 /\ Count(shell_call.sent, StandardControllerRelease(0, Layout[b + 1]))
                      = IF before(b) /\ ~now(b) THEN 1 ELSE 0
                 /\ ((old_p1_buttons_held \div (2 ^ b)) % 2 = 1) <=> now(b)
            /\ Len(shell_call.sent) = Cardinality(changed)
            /\ ~shell_call.panicked

\* a poll with A and B held before and B and Right held now: Right is pressed,
\* A is released, nothing is sent for B
C8_Witness ==
    /\ shell_call.op = "apply_player_input"
    /\ shell_call.old_held = 3
    /\ shell_call.keys_down = {"Z", "ArrowRight"}
    /\ shell_call.sent = << StandardControllerPress(0, "DPadRight"),
                            StandardControllerRelease(0, "A") >>
    /\ old_p1_buttons_held = 130

\* C9: open_cartridge always sends RequestSramSave carrying the previously
\* loaded cartridge's save path before it sends the LoadCartridge or LoadFailed
\* event for the new cartridge, and sram_path is switched to the new
\* cartridge's .sav path only after that save request has been sent.
C9_SaveRequestBeforeLoad ==
    shell_call.op = "open_cartridge" =>
        LET sent == shell_call.sent
        IN  /\ Len(sent) >= 1
            /\ sent[1] = RequestSramSave(to_string_lossy(shell_call.old_loaded_sav))
            /\ sent[1] = RequestSramSave(to_string_lossy(shell_call.old_sram_path))
            /\ \A i \in 1..Len(sent) :
                 sent[i].type \in {"LoadCartridge", "LoadFailed"} => i > 1

\* C10: a load-time failure in open_cartridge is never fatal: when the
\* cartridge file cannot be read exactly one LoadFailed and no LoadCartridge is
\* sent; when the cartridge is readable but its save file is not, exactly one
\* LoadCartridge is sent, with an empty save-memory buffer; in both cases the
\* function returns without panicking.
C10_LoadFailureNotFatal ==
    shell_call.op = "open_cartridge" =>
        LET sent == shell_call.sent
            loads == {i \in 1..Len(sent) : sent[i].type = "LoadCartridge"}
            fails == {i \in 1..Len(sent) : sent[i].type = "LoadFailed"}
        IN  /\ shell_call.cartridge_read.tag = "Err" =>
                 /\ Cardinality(fails) = 1
                 /\ Cardinality(loads) = 0
                 /\ ~shell_call.panicked
            /\ (shell_call.cartridge_read.tag = "Ok" /\ shell_call.sram_read.tag = "Err") =>
                 /\ Cardinality(loads) = 1
                 /\ \A i \in loads : sent[i].sram_data = <<>>
                 /\ ~shell_call.panicked

\* C11: when open_cartridge fails because the cartridge file cannot be read,
\* the shell remains in its prior state: sram_path still names the save file
\* of the previously loaded cartridge, so a later request_sram_save (menu, next
\* open or exit) targets the same path as before the failed open.
C11_FailedOpenKeepsSramPath ==
    (shell_call.op = "open_cartridge" /\ shell_call.cartridge_read.tag = "Err") =>
        /\ sram_path = shell_call.old_sram_path
        /\ request_sram_save(sram_path) = request_sram_save(shell_call.old_sram_path)

\* C12: on_exit sends RequestSramSave and then CloseApplication;
\* CloseApplication is the last event the shell ever sends on the runtime
\* channel; main returns only after the worker thread has been joined, and
\* then the worker, handling the events in FIFO order, has handled the final
\* save request (the one for sram_path) and left nothing in the channel.
C12_FinalSaveBeforeExit ==
    /\ shell_call.op = "on_exit" =>
          shell_call.sent = <<RequestSramSave(to_string_lossy(sram_path)), CloseApplication>>
    /\ \A i \in 1..Len(runtime_tx) :
          runtime_tx[i] = CloseApplication => i = Len(runtime_tx)
    /\ worker.state = "returned" => runtime_tx = <<>>
    /\ main_state = "returned" =>
          /\ worker.state = "returned"
          /\ worker.sram_saved = SomePath(to_string_lossy(sram_path))

\* main has returned after zelda.nes was loaded and the shell has exited: the
\* last save the worker handled is the one for zelda.sav
C12_Witness ==
    /\ main_state = "returned"
    /\ shell_call.op = "on_exit"
    /\ sram_path = [stem |-> "zelda", ext |-> "sav", utf8 |-> TRUE]
    /\ loaded_sav = sram_path
    /\ worker.sram_saved = SomePath(to_string_lossy(sram_path))

\* C19: handle_event, for every ShellEvent variant, sends nothing on the
\* runtime channel and enqueues no shell event; it changes only the frame
\* queues, has_sram or settings_cache, and after HasSram or SettingsUpdated the
\* cached value is the value of the most recently received such event.
C19_HandleEventFiresNothing ==
    [][ IF Len(shell_rx') < Len(shell_rx)
          THEN \* the step receives Head(shell_rx) and handles it
               LET event == Head(shell_rx)
               IN  /\ shell_call'.op = "handle_event"
                   /\ shell_call'.sent = <<>>
                   /\ runtime_tx' = runtime_tx
                   /\ shell_rx' = Tail(shell_rx)
                   /\ UNCHANGED <<old_p1_buttons_held, p1_sent, sram_path, loaded_sav,
                                  game_window_scale, texture_handle, worker>>
                   /\ event.type = "ImageRendered" =>
                         UNCHANGED <<has_sram, settings_cache>>
                   /\ event.type = "HasSram" =>
                         /\ has_sram' = event.has_sram
                         /\ UNCHANGED <<settings_cache, last_rendered_frames>>
                   /\ event.type = "SettingsUpdated" =>
                         /\ settings_cache' = event.settings_object
                         /\ UNCHANGED <<has_sram, last_rendered_frames>>
          ELSE UNCHANGED <<has_sram, settings_cache>> ]_vars

\* SettingsUpdated handled after HasSram(TRUE) and a frame: both cached values
\* are the ones received last, and nothing was sent
C19_Witness ==
    /\ shell_call.op = "handle_event"
    /\ shell_call.event = SettingsUpdated("scale_3")
    /\ settings_cache = "scale_3"
    /\ has_sram
    /\ last_rendered_frames["game_window"] # <<>>
    /\ runtime_tx = <<>>

\* C20: after any interleaving of handle_event(ImageRendered) and
\* process_rendered_frames every queue of last_rendered_frames holds at most 2
\* frames; a frame that arrives at a queue holding 2 drops the oldest frame
\* and is kept as the newest.
C20_AtMostTwoFramesQueued ==
    /\ \A id \in DOMAIN last_rendered_frames : Len(last_rendered_frames[id]) <= 2
    /\ (/\ shell_call.op = "handle_event"
        /\ shell_call.event.type = "ImageRendered"
        /\ shell_call.event.id \in DOMAIN shell_call.old_frames) =>
          LET old == shell_call.old_frames[shell_call.event.id]
              new == last_rendered_frames[shell_call.event.id]
          IN  IF Len(old) = 2
                THEN new = <<old[2], shell_call.event.canvas>>
                ELSE new = old \o <<shell_call.event.canvas>>

\* a third frame arrives while two wait to be shown
C20_Witness ==
    /\ shell_call.op = "handle_event"
    /\ shell_call.event.type = "ImageRendered"
    /\ shell_call.event.id = "game_window"
    /\ Len(shell_call.old_frames["game_window"]) = 2
    /\ Len(last_rendered_frames["game_window"]) = 2
    /\ last_rendered_frames["game_window"][1] = shell_call.old_frames["game_window"][2]
    /\ last_rendered_frames["game_window"][2] = shell_call.event.canvas

\* the numbers of the game-window frames a sequence of shell events carries
GameFrames(events) ==
    {events[i].canvas.frame :
        i \in {j \in 1..Len(events) : /\ events[j].type = "ImageRendered"
                                      /\ events[j].id = "game_window"}}

\* the frame shown is older than every queued frame, the queued frames are
\* oldest first, and every frame still in the channel is newer than them
PipelineOrdered ==
    LET queue == last_rendered_frames["game_window"]
    IN  /\ \A i \in 1..Len(queue) : texture_handle < queue[i].frame
        /\ \A i, j \in 1..Len(queue) : i < j => queue[i].frame < queue[j].frame
        /\ \A f \in GameFrames(shell_rx) :
              /\ texture_handle < f
              /\ \A i \in 1..Len(queue) : queue[i].frame < f
        /\ \A i, j \in 1..Len(shell_rx) :
              (/\ i < j
               /\ shell_rx[i].type = "ImageRendered"
               /\ shell_rx[j].type = "ImageRendered") =>
                 shell_rx[i].canvas.frame < shell_rx[j].canvas.frame

\* C21: frames are displayed in the order the worker rendered them. Each call
\* of process_rendered_frames displays at most one frame, the oldest queued for
\* "game_window"; the frame displayed was rendered later than the one shown
\* before (so none is displayed after a later one, none twice); with an empty
\* queue the texture and game_window_scale are unchanged; and nothing else
\* changes the texture.
C21_FramesDisplayedInOrder ==
    [][ /\ PipelineOrdered'
        /\ (shell_call'.op = "process_rendered_frames" /\ UNCHANGED <<shell_rx, worker>>) =>
              LET queue == last_rendered_frames["game_window"]
              IN  IF queue = <<>>
                    THEN UNCHANGED <<texture_handle, game_window_scale,
                                     last_rendered_frames>>
                    ELSE /\ texture_handle' = queue[1].frame
                         /\ game_window_scale' = queue[1].scale
                         /\ last_rendered_frames' =
                               [last_rendered_frames EXCEPT !["game_window"] = Tail(queue)]
                         /\ texture_handle' > texture_handle
        /\ texture_handle' # texture_handle =>
              /\ shell_call'.op = "process_rendered_frames"
              /\ texture_handle' > texture_handle ]_vars

\* two frames wait, an earlier frame is on screen, and the call shows the
\* older of the two and leaves the newer queued
C21_Witness ==
    /\ shell_call.op = "process_rendered_frames"
    /\ Len(shell_call.old_frames["game_window"]) = 2
    /\ texture_handle = shell_call.old_frames["game_window"][1].frame
    /\ texture_handle >= 2
    /\ last_rendered_frames["game_window"] = <<shell_call.old_frames["game_window"][2]>>
    /\ last_rendered_frames["game_window"][1].frame > texture_handle

\* C22: the set of frame-queue ids is fixed at construction to exactly
\* {"game_window"}. An ImageRendered event with any other id changes no queue
\* and does not panic, no event adds or removes a queue, and
\* process_rendered_frames never reaches its missing-frame-buffer panic.
C22_QueueIdsFixed ==
    /\ DOMAIN last_rendered_frames = {"game_window"}
    /\ shell_call.op = "process_rendered_frames" => ~shell_call.panicked
    /\ shell_call.op = "handle_event" =>
          /\ ~shell_call.panicked
          /\ DOMAIN shell_call.old_frames = {"game_window"}
          /\ (/\ shell_call.event.type = "ImageRendered"
              /\ shell_call.event.id # "game_window") =>
                /\ last_rendered_frames = shell_call.old_frames
                /\ shell_call.printed
          /\ shell_call.event.type # "ImageRendered" =>
                last_rendered_frames = shell_call.old_frames

\* a frame for the piano roll arrives while a game-window frame waits: it is
\* reported and dropped, the waiting frame stays
C22_Witness ==
    /\ shell_call.op = "handle_event"
    /\ shell_call.event.type = "ImageRendered"
    /\ shell_call.event.id = "piano_roll_window"
    /\ shell_call.printed
    /\ Len(last_rendered_frames["game_window"]) = 1
    /\ last_rendered_frames = shell_call.old_frames

\* the worker sends a shell event
WorkerSendStep == Len(shell_rx') > Len(shell_rx)

\* one step of process_shell_events: what it may do to the channel and the call
ShellLoopStep ==
    /\ Len(shell_rx') < Len(shell_rx) =>
          \* the oldest event, and only it, is received and handled
          /\ shell_call'.op = "handle_event"
          /\ shell_call'.event = Head(shell_rx)
          /\ shell_rx' = Tail(shell_rx)
          /\ shell_pc' = "process_shell_events"
    /\ (shell_pc = "process_shell_events" /\ shell_pc' = "idle") =>
          \* the call returns only from an empty channel
          /\ shell_rx = <<>>
          /\ shell_rx' = <<>>
          /\ ~shell_call'.panicked
    /\ (/\ shell_pc = "process_shell_events"
        /\ shell_rx = <<>>
        /\ shell_call' # shell_call) =>
          \* the try_recv that finds the channel empty ends the call
          shell_pc' = "idle" \/ shell_call'.panicked
    /\ (shell_call'.panicked /\ ~shell_call.panicked) =>
          /\ shell_call'.op = "process_shell_events"
          /\ shell_rx = <<>>
          /\ worker.state # "running"
          /\ UNCHANGED frameVars

HeldButtons(held) == {ButtonOfBit[i + 1] : i \in {j \in 0..7 : Bit(held, j) = 1}}

\* C24: over any sequence of input polls from the initial state the events
\* sent for each button alternate Press, Release, Press, ... beginning with
\* Press (never a Press for a button whose last event was a Press, never a
\* Release for one whose last event was not), and after each poll
\* old_p1_buttons_held is the set of buttons whose last event sent was a Press.
C24_PressReleaseAlternate ==
    /\ p1_sent.alternates
    /\ p1_sent.last_pressed = HeldButtons(old_p1_buttons_held)

\* a poll that finds A let go and B newly down, Start still held: Release(A)
\* and Press(B) are sent, nothing for Start
C24_Witness ==
    /\ shell_call.op = "apply_player_input"
    /\ shell_call.old_held = 9
    /\ old_p1_buttons_held = 10
    /\ shell_call.sent = <<StandardControllerPress(0, "B"),
                           StandardControllerRelease(0, "A")>>
    /\ p1_sent.last_pressed = {"B", "Start"}

\* the banks a mapper has selected when the last write it claimed carried
\* data, or on a fresh mapper (-1)
BanksAfter(data) ==
    IF data = -1 THEN <<0, 0>> ELSE <<(data \div 16) % 4, data % 4>>

\* C25: the state of a GxRom is determined by its most recent write to
\* 0x8000-0xFFFF alone. A fresh mapper has prg_bank = chr_bank = 0; a claimed
\* write sets both registers from its data byte whatever the address within
\* the range and whatever was selected before, so that writing the byte again
\* changes nothing; and a read answers what the storage holds for the banks of
\* the last byte written, whatever the calls before it were.
C25_LastWriteDeterminesState ==
    /\ <<prg_bank, chr_bank>> = BanksAfter(gx_written)
    /\ (gx_call.op = "write" /\ gx_call.address \in 32768..65535) =>
          /\ gx_written = gx_call.data
          /\ \A address \in Addresses \cap (32768..65535), pbank \in 0..3, cbank \in 0..3 :
                write_byte(pbank, cbank, address, gx_call.data) = <<prg_bank, chr_bank>>
    /\ gx_call.op = "read" =>
          gx_call.result = read_byte(prg_rom, chr_rom, BanksAfter(gx_written)[1],
                                     BanksAfter(gx_written)[2], gx_call.address)

\* 0xDE was written to the mapper, and the write of 0xFF to 0x7FFF that
\* followed is not a claimed one: the banks are still those of 0xDE
C25_Witness ==
    /\ gx_call.op = "write"
    /\ gx_call.address = 32767
    /\ gx_call.data = 255
    /\ gx_written = 222
    /\ prg_bank = 1
    /\ chr_bank = 2


(***************************************************************************)
(* PianoRollWindow: properties                                             *)
(***************************************************************************)
\* the periods the noise channel of the console can be set to
LegalNoisePeriods ==
    {4, 8, 16, 32, 64, 96, 128, 160, 202, 254, 380, 508, 762, 1016, 2034, 4068}

\* C14: noise_channel_state never faults on any stored noise period: every
\* period outside the lookup table maps to the default index 0, and for every
\* period the index is in 0..15.
C14_NoisePeriodDegradesToDefault ==
    piano_call.op = "noise_channel_state" =>
        LET period == nes.apu.noise.period_initial
            index == piano_call.result.frequency
        IN  /\ ~piano_call.panicked
            /\ index.den = 1
            /\ index.num \in 0..15
            /\ period \notin LegalNoisePeriods => index.num = 0

\* a playing noise channel whose stored period, 4069, is in no arm
C14_Witness ==
    /\ piano_call.op = "noise_channel_state"
    /\ nes.apu.noise.period_initial = 4069
    /\ piano_call.result.playing
    /\ piano_call.result.frequency = F32(0, 1)

\* the periods the lookup table recognises
RecognisedPeriods == {arm[1] : arm \in NoiseArms}

\* C15: the fixed noise-period lookup table recognises exactly fourteen legal
\* period values, each mapped to a distinct index.
C15_FourteenLegalPeriods ==
    piano_call.op = "noise_channel_state" =>
        /\ Cardinality(RecognisedPeriods) = 14
        /\ \A a, b \in NoiseArms : a[2] = b[2] => a[1] = b[1]
        /\ nes.apu.noise.period_initial \in RecognisedPeriods =>
              <<nes.apu.noise.period_initial, piano_call.result.frequency.num>> \in NoiseArms

\* C15, amended: the lookup table recognises exactly sixteen legal period
\* values, 4 .. 4068, each mapped to a distinct index, the indices being
\* 0..15; noise_channel_state reports the index of a recognised period.
C15_SixteenLegalPeriods ==
    /\ Cardinality(RecognisedPeriods) = 16
    /\ RecognisedPeriods = LegalNoisePeriods
    /\ \A a, b \in NoiseArms : a[2] = b[2] => a[1] = b[1]
    /\ {arm[2] : arm \in NoiseArms} = 0..15
    /\ (/\ piano_call.op = "noise_channel_state"
        /\ nes.apu.noise.period_initial \in RecognisedPeriods) =>
          <<nes.apu.noise.period_initial, piano_call.result.frequency.num>> \in NoiseArms

\* the longest period, 4068, is recognised and has the sixteenth index
C15_Witness ==
    /\ piano_call.op = "noise_channel_state"
    /\ nes.apu.noise.period_initial = 4068
    /\ piano_call.result.frequency = F32(15, 1)

\* C16: for every period p in 0..2047 pulse_frequency(p) is the fixed clock
\* divided by 16 * (p + 1) and triangle_frequency(p) the same clock divided by
\* 32 * (p + 1); the divisor is never zero, and triangle_frequency(p) is
\* exactly half of pulse_frequency(p).
C16_ClockDividedByPeriod ==
    /\ piano_call.op = "pulse_frequency" =>
          LET period == piano_call.period
              f == piano_call.result
          IN  /\ period \in 0..2047
              /\ f.num = 1876713
              /\ f.den = 16 * (period + 1)
              /\ f.den # 0
    /\ piano_call.op = "triangle_frequency" =>
          LET period == piano_call.period
              f == piano_call.result
              g == pulse_frequency(period)
          IN  /\ period \in 0..2047
              /\ f.num = 1876713
              /\ f.den = 32 * (period + 1)
              /\ f.den # 0
              /\ g.den # 0
              /\ f.num = g.num /\ f.den = 2 * g.den      \* f = g / 2

\* the longest period: the clock divided by 32 * 2048
C16_Witness ==
    /\ piano_call.op = "triangle_frequency"
    /\ piano_call.period = 2047
    /\ piano_call.result = F32(NTSC_CPU_FREQUENCY, 65536)

\* the rightmost column of the piano roll
NewestColumn == buffer.columns[Len(buffer.columns)]

\* the rectangles of the newest column drawn in a shade of color
DrawnIn(color) ==
    {k \in 1..Len(NewestColumn.rects) :
        NewestColumn.rects[k].color \in
            {apply_brightness(color, 40), apply_brightness(color, 100)}}

\* C13: PianoRollWindow::update, and everything it calls, leaves every field of
\* the NesState it is given unchanged, whether or not the frame advanced; it
\* changes only the buffer, last_frame and last_dmc_output of the window.
C13_UpdateLeavesNesUnchanged ==
    [][ piano_call'.op = "update" =>
            /\ nes' = nes
            /\ UNCHANGED <<gxVars, shellVars>> ]_vars

\* an update on a new frame that drew the notes of a playing APU
C13_Witness ==
    /\ piano_call.op = "update"
    /\ ~piano_call.paused
    /\ last_frame = 2
    /\ nes.ppu.current_frame = 2
    /\ nes.apu.pulse_1.length_counter.length = 10
    /\ DrawnIn(<<255, 64, 64, 255>>) # {}
    /\ last_dmc_output = 64

\* C17: update called with nes.ppu.current_frame equal to last_frame leaves
\* buffer, last_frame and last_dmc_output unchanged; otherwise last_frame is
\* nes.ppu.current_frame after the call, so repeated updates on the same frame
\* scroll the roll at most once.
C17_PausedUpdateDrawsNothing ==
    [][ piano_call'.op = "update" =>
            IF nes.ppu.current_frame = last_frame
              THEN /\ UNCHANGED <<buffer, last_frame, last_dmc_output>>
                   /\ piano_call'.paused
              ELSE /\ last_frame' = nes.ppu.current_frame
                   /\ last_frame' = nes'.ppu.current_frame
                   /\ ~piano_call'.paused ]_vars

\* a second update on frame 1, after the APU has changed inside the frame: the
\* column drawn by the first update is still the newest
C17_Witness ==
    /\ piano_call.op = "update"
    /\ piano_call.paused
    /\ last_frame = 1
    /\ nes.apu.dmc.output_level = 127
    /\ last_dmc_output = 64
    /\ NewestColumn.keys
    /\ ~buffer.columns[1].keys

\* C18: pulse_channel_state and noise_channel_state report playing iff the
\* envelope volume is not 0 and the length counter is above 0,
\* triangle_channel_state iff the length counter is above 0, the linear counter
\* is not 0 and the period is above 2; draw_note and draw_percussion draw
\* nothing for a channel that is not playing.
C18_SilentChannelDrawsNothing ==
    (piano_call.op = "update" /\ ~piano_call.paused) =>
        LET apu == nes.apu
            pulse_plays(pulse) ==
                pulse.envelope.current_volume # 0 /\ pulse.length_counter.length > 0
            triangle_plays ==
                /\ apu.triangle.length_counter.length > 0
                /\ apu.triangle.linear_counter_current # 0
                /\ apu.triangle.period_initial > 2
        IN  /\ pulse_channel_state(apu.pulse_1).playing <=> pulse_plays(apu.pulse_1)
            /\ pulse_channel_state(apu.pulse_2).playing <=> pulse_plays(apu.pulse_2)
            /\ noise_channel_state(apu.noise).playing <=> pulse_plays(apu.noise)
            /\ triangle_channel_state(apu.triangle).playing <=> triangle_plays
            /\ ~pulse_plays(apu.pulse_1) => DrawnIn(<<255, 64, 64, 255>>) = {}
            /\ ~pulse_plays(apu.pulse_2) => DrawnIn(<<255, 144, 64, 255>>) = {}
            /\ ~triangle_plays => DrawnIn(<<64, 255, 64, 255>>) = {}
            /\ ~pulse_plays(apu.noise) =>
                  DrawnIn(<<64, 64, 255, 255>>) \cup DrawnIn(<<64, 255, 255, 255>>) = {}

\* the newest column shows only the DMC: pulse 1 is too high for the roll,
\* pulse 2 has volume 15 but a length counter of 0, the triangle has a
\* period of 2 and is not drawn, the noise channel has volume 0 and is not drawn
C18_Witness ==
    /\ piano_call.op = "update"
    /\ ~piano_call.paused
    /\ ~piano_call.panicked
    /\ nes.apu.pulse_2.envelope.current_volume = 15
    /\ nes.apu.pulse_2.length_counter.length = 0
    /\ nes.apu.triangle.period_initial = 2
    /\ nes.apu.noise.envelope.current_volume = 0
    /\ NewestColumn.keys
    /\ Len(NewestColumn.rects) = 2
    /\ DrawnIn(<<128, 64, 255, 255>>) = {2}

\* the note channels of the console shown, each with the colour of its notes
NoteChannels ==
    { <<pulse_channel_state(nes.apu.pulse_1), <<255, 64, 64, 255>> >>,
      <<pulse_channel_state(nes.apu.pulse_2), <<255, 144, 64, 255>> >>,
      <<triangle_channel_state(nes.apu.triangle), <<64, 255, 64, 255>> >> }

\* the rows of a rectangle lie in [NOTE_FIELD_Y, NOTE_FIELD_Y + NOTE_FIELD_HEIGHT)
InNoteField(rect) ==
    /\ rect.y >= NOTE_FIELD_Y
    /\ rect.y + rect.height <= NOTE_FIELD_Y + NOTE_FIELD_HEIGHT

\* C26: for any playing channel with volume in [0,15] and any coordinate
\* frequency_to_coordinate yields (0 included, as for a low triangle period),
\* draw_note performs no unsigned underflow: note_height is odd and in 1..9,
\* note_py = outline_py - (KEY_HEIGHT - note_height)/2 is not below zero, and
\* the rectangles drawn lie inside the rows of the note field.
C26_DrawNoteNoUnderflow ==
    (piano_call.op = "update" /\ ~piano_call.paused) =>
        \A note \in NoteChannels :
            LET channel == note[1]
                note_height == BitAnd((AsU32(channel.volume) * KEY_HEIGHT) \div 15, 254) + 1
                outline_py == NoteCoordinate[channel.frequency.den]
            IN  (channel.playing /\ AsU32(channel.volume) \in 0..15) =>
                  /\ note_height \in {1, 3, 5, 7, 9}
                  /\ outline_py - ((KEY_HEIGHT - note_height) \div 2) >= 0
                  /\ \A overflow_checks \in BOOLEAN :
                        LET drawn == draw_note(<<>>, channel, note[2], overflow_checks)
                        IN  /\ ~drawn.panicked
                            /\ \A k \in 1..Len(drawn.rects) : InNoteField(drawn.rects[k])

=============================================================================
